---- MODULE Spec2Model ----
(***************************************************************************)
(* Model of app.py: a Flask application with one route, "/", bound to the  *)
(* view function home, and a development-server bootstrap guarded by the   *)
(* entry-point check.  The module body is executed statement by statement  *)
(* (pc), the server handles requests on concurrent threads (inflight), and *)
(* each request goes through the three steps of Flask.wsgi_app: push the   *)
(* request context (URL matching), full_dispatch_request, and writing the  *)
(* response.                                                               *)
(***************************************************************************)
EXTENDS Bags, FiniteSets, Integers, Sequences, TLC

VARIABLES
    name,               \* the module's __name__
    pc,                 \* position in the module body: L1, L3, L5, L9, L10, serving, done
    url_map,            \* app.url_map: the set of registered rules
    view_functions,     \* app.view_functions: the endpoints that have a view
    got_first_request,  \* app._got_first_request
    server,             \* lifecycle of the HTTP server: stopped / listening
    bound,              \* the address the server socket is bound to
    signal,             \* a termination signal has been received
    inflight,           \* bag of request contexts being handled by server threads
    first               \* the response written to the first completed GET /

vars == <<name, pc, url_map, view_functions, got_first_request, server, bound,
          signal, inflight, first>>

\* Number of requests the threaded server handles at the same time.
MaxInFlight == 2

----------------------------------------------------------------------------
(* Requests.  A path is the sequence of its segments: "/" is <<>>,         *)
(* "/missing" is <<"missing">>, "/static/x" is <<"static", "x">>.          *)

Methods == {"GET", "HEAD", "OPTIONS", "POST"}
Root == <<>>
Paths == {Root, <<"missing">>, <<"static", "x">>}
Queries == {"", "name=x"}
HeaderSets == {"none", "X-Debug: 1"}
Bodies == {"", "payload"}

\* The query, headers and body a request comes with: none of them, each one
\* alone, or all three.
Extras == {<<"", "none", "">>, <<"name=x", "none", "">>, <<"", "X-Debug: 1", "">>,
           <<"", "none", "payload">>, <<"name=x", "X-Debug: 1", "payload">>}

Requests == {[method |-> m, path |-> p, query |-> e[1], headers |-> e[2],
              body |-> e[3]] : m \in Methods, p \in Paths, e \in Extras}

HostLoopback == "127.0.0.1"

\* app.run(host="0.0.0.0", port=5000)
Host == "0.0.0.0"
Port == 5000
Unbound == <<"", 0>>

NoResponse == [status |-> 0, body |-> "", view |-> ""]

----------------------------------------------------------------------------
(* Route registration.                                                     *)

\* Flask(__name__): static_folder defaults to "static", so the constructor
\* registers the rule /static/<path:filename> with endpoint "static".
StaticRule == [rule |-> <<"static", "<path:filename>">>, endpoint |-> "static",
               methods |-> {"GET", "HEAD", "OPTIONS"},
               provide_automatic_options |-> TRUE]

RouteMethodsWithPost == {"GET", "POST"}

\* @app.route("/") gives no methods argument: add_url_rule defaults to GET.
RouteMethods == {"GET"}

\* add_url_rule: OPTIONS is added when the view does not list it (automatic
\* options), and werkzeug's Rule adds HEAD whenever GET is allowed.
RegisteredMethods(methods) ==
    methods \cup (IF "OPTIONS" \in methods THEN {} ELSE {"OPTIONS"})
            \cup (IF "GET" \in methods THEN {"HEAD"} ELSE {})

HomeRule == [rule |-> Root, endpoint |-> "home",
             methods |-> RegisteredMethods(RouteMethods),
             provide_automatic_options |-> "OPTIONS" \notin RouteMethods]

----------------------------------------------------------------------------
(* URL matching.                                                           *)

\* A rule matches a path segment by segment; the path converter
\* <path:filename> takes one or more remaining segments.
RuleMatchesPrefix(rule, path) ==
    /\ Len(rule) <= Len(path)
    /\ \A i \in 1..Len(rule) : rule[i] = path[i] \/ rule[i] = "<path:filename>"

RECURSIVE RuleMatches(_, _)
RuleMatches(rule, path) ==
    IF rule = <<>> THEN path = <<>>
    ELSE IF Head(rule) = "<path:filename>" THEN Len(rule) = 1 /\ Len(path) >= 1
    ELSE /\ path # <<>>
         /\ Head(rule) = Head(path)
         /\ RuleMatches(Tail(rule), Tail(path))

MatchPathOnly(map, req) ==
    LET onPath == {r \in map : RuleMatches(r.rule, req.path)}
    IN  IF onPath # {}
        THEN [endpoint |-> (CHOOSE r \in onPath : TRUE).endpoint, exc |-> ""]
        ELSE [endpoint |-> "", exc |-> "NotFound"]

\* MapAdapter.match: the rule that matches path and method; a rule that
\* matches the path only raises MethodNotAllowed, none raises NotFound.
Match(map, req) ==
    LET onPath == {r \in map : RuleMatches(r.rule, req.path)}
        onBoth == {r \in onPath : req.method \in r.methods}
    IN  IF onBoth # {}
        THEN [endpoint |-> (CHOOSE r \in onBoth : TRUE).endpoint, exc |-> ""]
        ELSE IF onPath # {}
        THEN [endpoint |-> "", exc |-> "MethodNotAllowed"]
        ELSE [endpoint |-> "", exc |-> "NotFound"]

----------------------------------------------------------------------------
(* Views and dispatch.                                                     *)

\* def home(): return "This is Kefas Lungu's HNG 13 stage 1 task."
\* The view runs inside the request context ctx and does not look at it.
homeNoPeriod(ctx) == "This is Kefas Lungu's HNG 13 stage 1 task"

homeFirstOnly(ctx) ==
    IF got_first_request THEN "Welcome back." ELSE homeNoPeriod(ctx) \o "."

homeShared(ctx) ==
    IF BagCardinality(inflight) > 1 THEN "Busy." ELSE homeNoPeriod(ctx) \o "."

homeEcho(ctx) ==
    IF ctx.req.query = "" /\ ctx.req.headers = "none" /\ ctx.req.body = ""
    THEN homeNoPeriod(ctx) \o "."
    ELSE "Unexpected input."

home(ctx) == "This is Kefas Lungu's HNG 13 stage 1 task."

\* The files under the application's static folder: the repository has none.
StaticFiles == {}

HTTPError(exc) ==
    IF exc = "NotFound"
    THEN [status |-> 404, body |-> "Not Found", view |-> ""]
    ELSE [status |-> 405, body |-> "Method Not Allowed", view |-> ""]

\* send_static_file: NotFound unless the file exists in the static folder.
send_static_file(ctx) ==
    IF Tail(ctx.req.path) \in StaticFiles
    THEN [status |-> 200, body |-> "file", view |-> "static"]
    ELSE [HTTPError("NotFound") EXCEPT !.view = "static"]

\* make_response: a string returned by a view becomes a 200 response.
CallView(endpoint, ctx) ==
    IF endpoint = "home"
    THEN [status |-> 200, body |-> home(ctx), view |-> "home"]
    ELSE send_static_file(ctx)

\* Flask.full_dispatch_request: a routing exception becomes the default error
\* response, OPTIONS on a rule with automatic options is answered without
\* calling the view, anything else calls the view of the matched endpoint.
DispatchResponse(map, ctx) ==
    IF ctx.exc # "" THEN HTTPError(ctx.exc)
    ELSE LET rule == CHOOSE r \in map : r.endpoint = ctx.endpoint
         IN  IF rule.provide_automatic_options /\ ctx.req.method = "OPTIONS"
             THEN [status |-> 200, body |-> "", view |-> ""]
             ELSE CallView(ctx.endpoint, ctx)

\* What is written to the client: a HEAD response carries no body.
Wire(ctx) ==
    IF ctx.req.method = "HEAD" THEN [ctx.resp EXCEPT !.body = ""] ELSE ctx.resp

\* RequestContext.push: the context of a request, with the result of URL
\* matching stored in it.
NewContext(map, req) ==
    LET m == Match(map, req)
    IN  [req |-> req, pc |-> "dispatch", endpoint |-> m.endpoint, exc |-> m.exc,
         resp |-> NoResponse]

InFlight == BagToSet(inflight)

----------------------------------------------------------------------------
(* The module body.                                                        *)

Init ==
    /\ name \in {"__main__", "app"}
    /\ pc = "L1"
    /\ url_map = {}
    /\ view_functions = {}
    /\ got_first_request = FALSE
    /\ server = "stopped"
    /\ bound = Unbound
    /\ signal = FALSE
    /\ inflight = EmptyBag
    /\ first = NoResponse

\* from flask import Flask
ImportFlask ==
    /\ pc = "L1"
    /\ pc' = "L3"
    /\ UNCHANGED <<name, url_map, view_functions, got_first_request, server,
                   bound, signal, inflight, first>>

\* app = Flask(__name__)
CreateApp ==
    /\ pc = "L3"
    /\ pc' = "L5"
    /\ url_map' = {StaticRule}
    /\ view_functions' = {"static"}
    /\ UNCHANGED <<name, got_first_request, server, bound, signal, inflight, first>>

\* @app.route("/") def home(): ...
RegisterHome ==
    /\ pc = "L5"
    /\ pc' = "L9"
    /\ url_map' = url_map \cup {HomeRule}
    /\ view_functions' = view_functions \cup {"home"}
    /\ UNCHANGED <<name, got_first_request, server, bound, signal, inflight, first>>

AlwaysMain == TRUE

\* if __name__ == "__main__":
IsMain == name = "__main__"

EntryGuard ==
    /\ pc = "L9"
    /\ pc' = IF IsMain THEN "L10" ELSE "done"
    /\ UNCHANGED <<name, url_map, view_functions, got_first_request, server,
                   bound, signal, inflight, first>>

AppRunReloader ==
    /\ pc = "L10"
    /\ server = "stopped"
    /\ pc' = "serving"
    /\ server' = "reloading"
    /\ bound' = <<Host, Port>>
    /\ UNCHANGED <<name, url_map, view_functions, got_first_request, signal,
                   inflight, first>>

\* app.run(host="0.0.0.0", port=5000): the socket is bound and the server
\* starts serving.
AppRun ==
    /\ pc = "L10"
    /\ server = "stopped"
    /\ pc' = "serving"
    /\ server' = "listening"
    /\ bound' = <<Host, Port>>
    /\ UNCHANGED <<name, url_map, view_functions, got_first_request, signal,
                   inflight, first>>

\* app.run when the bind fails (address in use): OSError ends the program.
BindFails ==
    /\ pc = "L10"
    /\ pc' = "done"
    /\ UNCHANGED <<name, url_map, view_functions, got_first_request, server,
                   bound, signal, inflight, first>>

----------------------------------------------------------------------------
(* Request handling, one thread per request.                               *)

Accept(req) ==
    /\ pc = "serving"
    /\ server = "listening"
    /\ BagCardinality(inflight) < MaxInFlight
    /\ inflight' = inflight (+) SetToBag({NewContext(url_map, req)})
    /\ UNCHANGED <<name, pc, url_map, view_functions, got_first_request, server,
                   bound, signal, first>>

FullDispatch(ctx) ==
    /\ server = "listening"
    /\ BagIn(ctx, inflight)
    /\ ctx.pc = "dispatch"
    /\ got_first_request' = TRUE
    /\ inflight' = (inflight (-) SetToBag({ctx})) (+)
                   SetToBag({[ctx EXCEPT !.pc = "send",
                                         !.resp = DispatchResponse(url_map, ctx)]})
    /\ UNCHANGED <<name, pc, url_map, view_functions, server, bound, signal, first>>

Send(ctx) ==
    /\ server = "listening"
    /\ BagIn(ctx, inflight)
    /\ ctx.pc = "send"
    /\ inflight' = inflight (-) SetToBag({ctx})
    /\ first' = IF first = NoResponse /\ ctx.req.method = "GET" /\ ctx.req.path = Root
                THEN Wire(ctx) ELSE first
    /\ UNCHANGED <<name, pc, url_map, view_functions, got_first_request, server,
                   bound, signal>>

\* A termination signal ends the process: the server stops, its socket is
\* closed and its threads die.
Terminate ==
    /\ pc # "done"
    /\ signal' = TRUE
    /\ pc' = "done"
    /\ server' = "stopped"
    /\ bound' = Unbound
    /\ inflight' = EmptyBag
    /\ UNCHANGED <<name, url_map, view_functions, got_first_request, first>>

Next ==
    \/ ImportFlask
    \/ CreateApp
    \/ RegisterHome
    \/ EntryGuard
    \/ AppRun
    \/ BindFails
    \/ \E req \in Requests : Accept(req)
    \/ \E ctx \in InFlight : FullDispatch(ctx)
    \/ \E ctx \in InFlight : Send(ctx)
    \/ Terminate

Spec == Init /\ [][Next]_vars

TypeOK ==
    /\ name \in {"__main__", "app"}
    /\ pc \in {"L1", "L3", "L5", "L9", "L10", "serving", "done"}
    /\ got_first_request \in BOOLEAN
    /\ signal \in BOOLEAN
    /\ BagCardinality(inflight) <= MaxInFlight
    /\ \A c \in InFlight : c.req \in Requests /\ c.pc \in {"dispatch", "send"}

----------------------------------------------------------------------------
(* Properties.  A response is observed on the context that holds it, at    *)
(* the point where it is about to be written (pc = "send").                *)

Answered == {c \in InFlight : c.pc = "send"}

IsGetRoot(req) == req.method = "GET" /\ req.path = Root

\* The response a request gets when it is the only one being handled.
ServeAlone(req) ==
    LET pushed == NewContext(url_map, req)
    IN  Wire([pushed EXCEPT !.pc = "send", !.resp = DispatchResponse(url_map, pushed)])

\* C1: every GET / handled while the server is listening is answered with
\* status 200 and exactly the body "This is Kefas Lungu's HNG 13 stage 1 task."
C1_GetRootGreeting ==
    \A c \in Answered :
        IsGetRoot(c.req) =>
            /\ server = "listening"
            /\ Wire(c).status = 200
            /\ Wire(c).body = "This is Kefas Lungu's HNG 13 stage 1 task."

C1_Witness ==
    \E c \in Answered : IsGetRoot(c.req) /\ Wire(c).status = 200 /\ Wire(c).view = "home"

\* C2 as claimed: every request whose path is not / is answered with a status
\* other than 200, namely the default 404, without home being invoked.
C2_Original ==
    \A c \in Answered :
        c.req.path # Root => Wire(c).status = 404 /\ Wire(c).view # "home"

\* C2 amended: for a path other than /, home is never invoked and the status
\* is not 200, except that OPTIONS on a path under the automatically
\* registered /static/<path:filename> rule is auto-answered 200; a path that
\* no rule matches gets 404.
C2_NonRootPaths ==
    \A c \in Answered :
        c.req.path # Root =>
            /\ Wire(c).view # "home"
            /\ Wire(c).status = 200 =>
                   c.req.method = "OPTIONS" /\ RuleMatches(StaticRule.rule, c.req.path)
            /\ ~RuleMatches(StaticRule.rule, c.req.path) => Wire(c).status = 404

C2_Witness ==
    /\ \E c \in Answered : c.req.path = <<"missing">> /\ Wire(c).status = 404
    /\ \E c \in Answered : c.req.path = <<"static", "x">> /\ c.req.method = "GET"
                           /\ Wire(c).status = 404

\* C3 as claimed: every request on / whose method is not GET is answered 405,
\* HEAD being the only exception.
C3_Original ==
    \A c \in Answered :
        c.req.path = Root /\ c.req.method \notin {"GET", "HEAD"} => Wire(c).status = 405

\* C3 amended: on /, a method other than GET, HEAD and OPTIONS is answered 405
\* without calling home; HEAD is answered as GET with an empty body, and
\* OPTIONS is answered 200 by the framework without calling home.
C3_RootMethods ==
    \A c \in Answered :
        c.req.path = Root =>
            /\ c.req.method \notin {"GET", "HEAD", "OPTIONS"} =>
                   Wire(c).status = 405 /\ Wire(c).view = ""
            /\ c.req.method = "HEAD" =>
                   Wire(c).status = 200 /\ Wire(c).body = "" /\ Wire(c).view = "home"
            /\ c.req.method = "OPTIONS" =>
                   Wire(c).status = 200 /\ Wire(c).body = "" /\ Wire(c).view = ""

C3_Witness ==
    /\ \E c \in Answered : c.req.path = Root /\ c.req.method = "POST"
                           /\ Wire(c).status = 405
    /\ \E c \in Answered : c.req.path = Root /\ c.req.method = "HEAD"
                           /\ Wire(c).status = 200

\* C4: POST / is answered with a status other than 200, and home is not
\* called for it.
C4_PostRootRejected ==
    \A c \in Answered :
        c.req.path = Root /\ c.req.method = "POST" =>
            Wire(c).status # 200 /\ Wire(c).view # "home"

C4_Witness ==
    \E c \in Answered :
        c.req.path = Root /\ c.req.method = "POST" /\ Wire(c).status # 200
        /\ server = "listening"

\* C5: once a GET / has been answered, every later GET / is answered with the
\* same status and body as that first one, whatever was handled in between.
C5_GetRootIdempotent ==
    \A c \in Answered :
        IsGetRoot(c.req) /\ first # NoResponse =>
            Wire(c).status = first.status /\ Wire(c).body = first.body

C5_Witness ==
    /\ first # NoResponse
    /\ got_first_request
    /\ \E c \in Answered : IsGetRoot(c.req)
    /\ \E c \in InFlight : ~IsGetRoot(c.req)

\* C6: the server is always stopped or listening; it leaves stopped only by
\* app.run starting it, to listening, and leaves listening only on a
\* termination signal, to stopped.
C6_Lifecycle ==
    /\ [](server \in {"stopped", "listening"})
    /\ [][/\ server = "stopped" /\ server' # "stopped" =>
               pc = "L10" /\ pc' = "serving" /\ server' = "listening"
          /\ server = "listening" /\ server' # "listening" =>
               ~signal /\ signal' /\ server' = "stopped"]_vars

C6_Witness ==
    server = "stopped" /\ signal /\ got_first_request /\ pc = "done"

\* C7: while listening the server is bound to 0.0.0.0:5000; a step without a
\* termination signal leaves it listening on that address; and while it is
\* listening every request in flight can be taken a step further and a new
\* one can be accepted whenever a thread is free.
C7_BindAndServe ==
    /\ [](server = "listening" =>
            /\ bound = <<"0.0.0.0", 5000>>
            /\ \A c \in InFlight : ENABLED (FullDispatch(c) \/ Send(c))
            /\ BagCardinality(inflight) < MaxInFlight =>
                   \A req \in Requests : ENABLED Accept(req))
    /\ [][server = "listening" /\ ~signal' =>
            server' = "listening" /\ bound' = bound /\ pc' = "serving"]_vars

C7_Witness ==
    /\ server = "listening"
    /\ bound = <<"0.0.0.0", 5000>>
    /\ first # NoResponse
    /\ BagCardinality(inflight) = MaxInFlight

\* C8: a request handled concurrently with others is answered as it would be
\* if handled alone, and two concurrent contexts of the same request hold the
\* same response.
C8_ConcurrentIndependent ==
    /\ \A c \in Answered : Wire(c) = ServeAlone(c.req)
    /\ \A c, d \in Answered : c.req = d.req => c.resp = d.resp

C8_Witness ==
    /\ BagCardinality(inflight) >= 2
    /\ \E c \in Answered : IsGetRoot(c.req) /\ Wire(c) = ServeAlone(c.req)

\* C9: two GET / requests that differ only in query, headers or body are
\* answered with the same status and body.
C9_InputsIgnored ==
    /\ \A c, d \in Answered :
           IsGetRoot(c.req) /\ IsGetRoot(d.req) =>
               Wire(c).status = Wire(d).status /\ Wire(c).body = Wire(d).body
    /\ \A c \in Answered : \A q \in Queries, h \in HeaderSets, b \in Bodies :
           IsGetRoot(c.req) =>
               LET other == ServeAlone([c.req EXCEPT !.query = q, !.headers = h,
                                                      !.body = b])
               IN  Wire(c).status = other.status /\ Wire(c).body = other.body

C9_Witness ==
    \E c, d \in Answered :
        /\ IsGetRoot(c.req) /\ IsGetRoot(d.req)
        /\ c.req.query # d.req.query
        /\ c.req.headers # d.req.headers
        /\ c.req.body # d.req.body
        /\ Wire(c) = Wire(d)

\* C10: the server is started only when the module runs as the main program;
\* a module loaded any other way ends with the application and its / route
\* defined, the server stopped and no address bound.
C10_EntryPointGuard ==
    /\ (server # "stopped" \/ bound # Unbound \/ pc \in {"L10", "serving"}) =>
           name = "__main__"
    /\ name # "__main__" /\ pc = "done" /\ ~signal =>
           /\ \E r \in url_map : r.rule = Root /\ r.endpoint = "home"
           /\ "home" \in view_functions
           /\ server = "stopped"
           /\ bound = Unbound
           /\ inflight = EmptyBag

C10_Witness ==
    /\ name = "app"
    /\ pc = "done"
    /\ ~signal
    /\ HomeRule \in url_map
    /\ server = "stopped"

====
